---- MODULE Spec2Model ----
(***************************************************************************)
(* Playlist synchronization engine of live_and_local: the create-playlist, *)
(* delete-playlist, update-playlist and user-playlists API handlers, the   *)
(* credential store (users), the playlist metadata store (playlists), the  *)
(* events table (artist_events) and the external music service the         *)
(* handlers call.                                                          *)
(*                                                                         *)
(* Every await of a handler is one action; the answer of the awaited call  *)
(* (an HTTP status, a rejected promise, a database error) is an input      *)
(* chosen with \E.                                                         *)
(***************************************************************************)
EXTENDS Integers, Sequences, FiniteSets, TLC

\* ------------------------------------------------------------------ values

\* JS undefined / SQL NULL, for strings and for numbers.
NULLS == "null"
NULLN == 0 - 999
\* An array parameter that the request left out (undefined, sent as NULL).
NULLV == {NULLS}

\* Bounds of the model: the longest resolved track list of the commit
\* specification, and the requests of a sequence of requests.
MaxUris == 250
MaxRequests == 2
\* The largest songs_per_artist of the truncation specification, and the
\* longest answer of the catalog.
MaxSongs == 12
\* The last day on which the page computes the next update.
MaxDay == 69
MaxTracks == 12

\* Program constants.
BatchCap == 100         \* create-playlist.js:155-156
SongsMax == 10          \* part_000:485, max of the songs-per-artist input
DaysDefault == 21       \* create-playlist.js:21

Min(a, b) == IF a < b THEN a ELSE b
Max(a, b) == IF a > b THEN a ELSE b

\* Array.prototype.slice(0, end): end undefined keeps everything, a negative
\* end counts from the back.
SliceTo(s, end) ==
  IF end = NULLN THEN s
  ELSE IF end < 0 THEN SubSeq(s, 1, Max(Len(s) + end, 0))
  ELSE SubSeq(s, 1, Min(end, Len(s)))

\* Array.prototype.slice(i, i + 100), i counted from 0.
BatchAt(s, i) == SubSeq(s, i + 1, Min(i + BatchCap, Len(s)))

\* All orderings of a finite set, as sequences without repetition.
Orderings(S) ==
  {q \in [1..Cardinality(S) -> S] : \A i, j \in 1..Cardinality(S) : i # j => q[i] # q[j]}

\* ------------------------------------------------------------------ data

\* The users table holds u1 and u2; u9 has no row.
Users == {"u1", "u2"}

\* Rows of artist_events: day is event_date - CURRENT_DATE.
ArtistEvents ==
  { [venue_id |-> "v1", spotify_artist_id |-> "a1", spotify_artist_name |-> "A",  day |-> 3],
    [venue_id |-> "v2", spotify_artist_id |-> "a1", spotify_artist_name |-> "A",  day |-> 5],
    [venue_id |-> "v1", spotify_artist_id |-> "a1", spotify_artist_name |-> "A2", day |-> 10],
    [venue_id |-> "v1", spotify_artist_id |-> "a2", spotify_artist_name |-> "B",  day |-> 40],
    [venue_id |-> "v2", spotify_artist_id |-> NULLS, spotify_artist_name |-> "X", day |-> 4] }

\* The catalog's top tracks of an artist, in catalog order (track 1 is shared);
\* the answer for a3 has MaxTracks tracks.
Catalog(a) ==
  IF a = "a1" THEN <<1, 2, 3>>
  ELSE IF a = "a3" THEN [k \in 1..MaxTracks |-> k]
  ELSE <<1, 4>>

\* SELECT DISTINCT spotify_artist_id, spotify_artist_name ... of the events query.
EventsQuery(venues, days) ==
  { [spotify_artist_id |-> e.spotify_artist_id, spotify_artist_name |-> e.spotify_artist_name] :
      e \in { x \in ArtistEvents : /\ x.venue_id \in venues
                                   /\ x.day >= 0
                                   /\ x.day <= days
                                   /\ x.spotify_artist_id # NULLS } }

\* Bodies of the token endpoint's successful answer to a refresh.
TokenResponses ==
  { [access_token |-> "tA2", refresh_token |-> "rA2"],
    [access_token |-> "tA2", refresh_token |-> NULLS] }

\* ------------------------------------------------------------------ state

VARIABLES
  users,        \* users table: spotify_user_id -> spotify_credentials
  playlists,    \* playlists table: sequence of rows in insertion order
  ext,          \* external service: playlist id -> [tracks, followed]
  extCount,     \* external playlists created so far (ids p1, p2, ...)
  clock,        \* CURRENT_TIMESTAMP / NOW(), one tick per started request
  nreq,         \* requests started
  c_pc,         \* create handler: position
  c_body,       \* create handler: req.body
  accessToken,  \* create handler: let accessToken
  refreshTok,   \* create handler: spotify_credentials.refresh_token as read
  newTokens,    \* refreshSpotifyToken: const newTokens
  spotifyPlaylistId,  \* create handler: the function-scoped var spotifyPlaylistId
  retryId,      \* create handler: the block-scoped const spotifyPlaylistId of the retry
  artists,      \* create handler: eventsResult.rows
  ai,           \* create handler: artists processed by the for-of loop
  trackUris,    \* create handler: trackUris
  bi,           \* create handler: i of the batch loop
  inflight,     \* create handler: append calls issued and not yet returned
  c_res,        \* create handler: the response sent
  c_sent,       \* create handler: responses sent by this operation
  c_failedAt,   \* create handler: the step whose exception reached the catch
  c_log,        \* create handler: external calls of this operation, in issue order
  d_pc,         \* delete handler: position
  d_body,       \* delete handler: req.body
  d_token,      \* delete handler: credentials.access_token
  d_res,        \* delete handler: the response sent
  d_log,        \* delete handler: external calls of this operation
  u_pc,         \* update handler: position
  u_body,       \* update handler: req.body
  u_res,        \* update handler: the response sent
  u_rows,       \* update handler: result.rows, the rows the UPDATE returned
  l_pc,         \* list handler: position
  l_user,       \* list handler: req.query.spotify_user_id
  l_res,        \* list handler: the response sent
  l_rows,       \* list handler: the playlists of the response
  today,        \* page: new Date(), as a day number whose weekday is today % 7
  nextSunday    \* page: the date of the next update shown after a create

createVars == <<c_pc, c_body, accessToken, refreshTok, newTokens, spotifyPlaylistId, retryId,
                artists, ai, trackUris, bi, inflight, c_res, c_sent, c_failedAt, c_log>>
deleteVars == <<d_pc, d_body, d_token, d_res, d_log>>
updateVars == <<u_pc, u_body, u_res, u_rows>>
listVars == <<l_pc, l_user, l_res, l_rows>>
storeVars == <<users, playlists, ext, extCount>>
frontVars == <<today, nextSunday>>
\* The locals of the handlers other than create, and other than delete.
notCreate == <<deleteVars, updateVars, listVars>>
notDelete == <<createVars, updateVars, listVars>>
vars == <<users, playlists, ext, extCount, clock, nreq, createVars, deleteVars, updateVars,
          listVars, frontVars>>

NoRes == [status |-> 0, error |-> NULLS, message |-> NULLS, playlist_id |-> NULLS,
          tracks_added |-> NULLN, artists_found |-> NULLN]

ErrorRes(status, error) == [NoRes EXCEPT !.status = status, !.error = error]

NoBody == [spotify_user_id |-> NULLS, playlist_name |-> NULLS, playlist_description |-> NULLS,
           preferred_venues |-> {}, songs_per_artist |-> NULLN, days_ahead |-> NULLN]

NoTokens == [access_token |-> NULLS, refresh_token |-> NULLS]

\* One external call of a handler, as recorded in its log.
Call(kind, tok, pid, artist, uris, res) ==
  [call |-> kind, tok |-> tok, pid |-> pid, artist |-> artist, uris |-> uris, res |-> res]

\* Id the external service assigns to its n-th playlist.
ExtId(n) == "p" \o ToString(n)

NewRow(id, body, days) ==
  [playlist_id |-> id, spotify_user_id |-> body.spotify_user_id,
   playlist_name |-> body.playlist_name, playlist_description |-> body.playlist_description,
   preferred_venues |-> body.preferred_venues, songs_per_artist |-> body.songs_per_artist,
   days_ahead |-> days, is_active |-> TRUE, playlist_updated_at |-> NULLN,
   updated_at |-> NULLN]

\* A playlist of u2 created earlier, present in every initial state.
Row0 ==
  [playlist_id |-> "p0", spotify_user_id |-> "u2", playlist_name |-> "n0",
   playlist_description |-> "d", preferred_venues |-> {"v1"}, songs_per_artist |-> 3,
   days_ahead |-> 21, is_active |-> TRUE, playlist_updated_at |-> 0, updated_at |-> NULLN]

CreateIdle ==
  /\ c_pc = "idle" /\ c_body = NoBody /\ accessToken = NULLS /\ refreshTok = NULLS
  /\ newTokens = NoTokens /\ spotifyPlaylistId = NULLS /\ retryId = NULLS
  /\ artists = <<>> /\ ai = 0 /\ trackUris = <<>> /\ bi = 0 /\ inflight = 0
  /\ c_res = NoRes /\ c_sent = 0 /\ c_failedAt = NULLS /\ c_log = <<>>

DeleteIdle ==
  /\ d_pc = "idle" /\ d_body = [playlist_id |-> NULLS, spotify_user_id |-> NULLS]
  /\ d_token = NULLS /\ d_res = NoRes /\ d_log = <<>>

NoUpdate ==
  [playlist_id |-> NULLS, spotify_user_id |-> NULLS, playlist_name |-> NULLS,
   playlist_description |-> NULLS, preferred_venues |-> NULLV, songs_per_artist |-> NULLN,
   days_ahead |-> NULLN]

UpdateIdle == u_pc = "idle" /\ u_body = NoUpdate /\ u_res = NoRes /\ u_rows = <<>>

ListIdle == l_pc = "idle" /\ l_user = NULLS /\ l_res = NoRes /\ l_rows = <<>>

\* The page has shown no next update.
FrontIdle == today = 0 /\ nextSunday = NULLN

\* The locals of a handler whose request has been answered are gone when the
\* next request arrives.
CreateReset ==
  /\ c_pc' = "idle" /\ c_body' = NoBody /\ accessToken' = NULLS /\ refreshTok' = NULLS
  /\ newTokens' = NoTokens /\ spotifyPlaylistId' = NULLS /\ retryId' = NULLS
  /\ artists' = <<>> /\ ai' = 0 /\ trackUris' = <<>> /\ bi' = 0 /\ inflight' = 0
  /\ c_res' = NoRes /\ c_sent' = 0 /\ c_failedAt' = NULLS /\ c_log' = <<>>

DeleteReset ==
  /\ d_pc' = "idle" /\ d_body' = [playlist_id |-> NULLS, spotify_user_id |-> NULLS]
  /\ d_token' = NULLS /\ d_res' = NoRes /\ d_log' = <<>>

UpdateReset == u_pc' = "idle" /\ u_body' = NoUpdate /\ u_res' = NoRes /\ u_rows' = <<>>

ListReset == l_pc' = "idle" /\ l_user' = NULLS /\ l_res' = NoRes /\ l_rows' = <<>>

\* The credential pairs stored by the logins of u1 and u2.
InitUsers ==
  [u \in Users |-> IF u = "u1" THEN [access_token |-> "tA", refresh_token |-> "rA"]
                                ELSE [access_token |-> "tB", refresh_token |-> "rB"]]

\* The external service holds the playlist of Row0.
InitExt == [p \in {"p0"} |-> [tracks |-> <<>>, followed |-> TRUE]]

Init ==
  /\ users = InitUsers
  /\ playlists = <<Row0>>
  /\ ext = InitExt
  /\ extCount = 0
  /\ clock = 0
  /\ nreq = 0
  /\ CreateIdle
  /\ DeleteIdle
  /\ UpdateIdle
  /\ ListIdle
  /\ FrontIdle

\* ------------------------------------------------------------------ inputs

\* Answers of a database query and of a fetch: an HTTP status class, or a
\* rejected promise (network error, timeout).
DbOutcomes == {"ok", "throw"}
FetchOutcomes == {"ok", "unauthorized", "error", "throw"}
\* A top-tracks answer can also be a 200 whose body has no tracks array.
LookupOutcomes == FetchOutcomes \cup {"malformed"}

CreateBodies ==
  [spotify_user_id : {"u1", "u9", NULLS},
   playlist_name : {"n1", NULLS},
   playlist_description : {"d"},
   preferred_venues : {{}, {"v1"}, {"v2"}, {"v1", "v2"}},
   songs_per_artist : {NULLN, 1, 11},
   days_ahead : {NULLN, 1, 91}]

DeleteBodies ==
  [playlist_id : {"p0", "p1", NULLS}, spotify_user_id : {"u1", "u2", "u9", NULLS}]

\* A body names a playlist and an owner and supplies any subset of the five
\* fields; the supplied values include an empty venue list and out-of-range numbers.
UpdateBodies ==
  [playlist_id : {"p0", "p1", NULLS},
   spotify_user_id : {"u1", "u2", NULLS},
   playlist_name : {NULLS, "n2"},
   playlist_description : {NULLS, "d2"},
   preferred_venues : {NULLV, {}, {"v2"}},
   songs_per_artist : {NULLN, 0, 5},
   days_ahead : {NULLN, 120}]

ListUsers == {"u1", "u2", "u9", NULLS}

\* No handler is between its request and its response.
Quiet ==
  /\ c_pc \in {"idle", "done"} /\ d_pc \in {"idle", "done"}
  /\ u_pc \in {"idle", "done"} /\ l_pc \in {"idle", "done"}

\* SQL equality: NULL equals nothing.
SqlEq(a, b) == a # NULLS /\ b # NULLS /\ a = b

\* ------------------------------------------------------------------ create

\* const { ..., days_ahead = 21 } = req.body
DaysAhead(body) == IF body.days_ahead = NULLN THEN DaysDefault ELSE body.days_ahead

\* if (!spotify_user_id || !playlist_name || !preferred_venues?.length)
CreateMissing(body) ==
  \/ body.spotify_user_id = NULLS
  \/ body.playlist_name = NULLS
  \/ body.preferred_venues = {}

\* The text of the error of the catch block: the same for every step.
CatchError(step) == "Failed to create playlist"

\* CreateCatch answering with the summary instead of the error.
CreateCatchSummary(step) ==
  /\ c_pc' = "done"
  /\ c_res' = [NoRes EXCEPT !.status = 200, !.message = "Playlist created successfully",
                            !.playlist_id = spotifyPlaylistId,
                            !.tracks_added = Len(trackUris), !.artists_found = Len(artists)]
  /\ c_sent' = c_sent + 1
  /\ c_failedAt' = step

\* catch (error) { res.status(500).json({ error: 'Failed to create playlist' }) }
CreateCatch(step) ==
  /\ c_pc' = "done"
  /\ c_res' = ErrorRes(500, CatchError(step))
  /\ c_sent' = c_sent + 1
  /\ c_failedAt' = step

CreateStart(body) ==
  /\ Quiet
  /\ nreq' = nreq + 1
  /\ clock' = clock + 1
  /\ c_body' = body
  /\ accessToken' = NULLS /\ refreshTok' = NULLS /\ newTokens' = NoTokens
  /\ spotifyPlaylistId' = NULLS /\ retryId' = NULLS
  /\ artists' = <<>> /\ ai' = 0 /\ trackUris' = <<>> /\ bi' = 0 /\ inflight' = 0
  /\ c_failedAt' = NULLS /\ c_log' = <<>>
  /\ IF CreateMissing(body)
       THEN c_pc' = "done" /\ c_res' = ErrorRes(400, "Missing required fields") /\ c_sent' = 1
       ELSE c_pc' = "userQuery" /\ c_res' = NoRes /\ c_sent' = 0
  /\ DeleteReset /\ UpdateReset /\ ListReset
  /\ UNCHANGED <<storeVars, frontVars>>

\* 1. SELECT spotify_credentials, display_name FROM users WHERE spotify_user_id = $1
CreateUserQuery(r) ==
  /\ c_pc = "userQuery"
  /\ IF r = "throw"
       THEN CreateCatch("userQuery") /\ UNCHANGED <<accessToken, refreshTok>>
       ELSE IF c_body.spotify_user_id \notin DOMAIN users
         THEN /\ c_pc' = "done"
              /\ c_res' = ErrorRes(404, "User not found")
              /\ c_sent' = c_sent + 1
              /\ UNCHANGED <<accessToken, refreshTok, c_failedAt>>
         ELSE /\ c_pc' = "createCall"
              /\ accessToken' = users[c_body.spotify_user_id].access_token
              /\ refreshTok' = users[c_body.spotify_user_id].refresh_token
              /\ UNCHANGED <<c_res, c_sent, c_failedAt>>
  /\ UNCHANGED <<storeVars, clock, nreq, frontVars, notCreate, c_body, newTokens, spotifyPlaylistId,
                 retryId, artists, ai, trackUris, bi, inflight, c_log>>

\* The external service answers a create-playlist call with ok: a new playlist exists.
ExtCreated == [p \in DOMAIN ext \cup {ExtId(extCount + 1)} |->
                 IF p \in DOMAIN ext THEN ext[p] ELSE [tracks |-> <<>>, followed |-> TRUE]]

\* 2. POST /v1/users/{id}/playlists, first attempt
CreateCall(r) ==
  /\ c_pc = "createCall"
  /\ c_log' = Append(c_log, Call("createPlaylist", accessToken, NULLS, NULLS, <<>>, r))
  /\ IF r = "ok"
       THEN /\ ext' = ExtCreated
            /\ extCount' = extCount + 1
            /\ spotifyPlaylistId' = ExtId(extCount + 1)
            /\ c_pc' = "insert"
            /\ UNCHANGED <<c_res, c_sent, c_failedAt>>
       ELSE IF r = "unauthorized"
         THEN /\ c_pc' = "refreshCall"
              /\ UNCHANGED <<ext, extCount, spotifyPlaylistId, c_res, c_sent, c_failedAt>>
         ELSE /\ CreateCatch("createCall")
              /\ UNCHANGED <<ext, extCount, spotifyPlaylistId>>
  /\ UNCHANGED <<users, playlists, clock, nreq, frontVars, notCreate, c_body, accessToken,
                 refreshTok, newTokens, retryId, artists, ai, trackUris, bi, inflight>>

\* ExchangeFailed without the test of tokenResponse.ok.
ExchangeFailedUnchecked(r) == r = "throw"

\* a rejected fetch, or if (!tokenResponse.ok) throw
ExchangeFailed(r) == r # "ok"

\* refreshSpotifyToken: POST accounts.spotify.com/api/token
RefreshCall(r, nt) ==
  /\ c_pc = "refreshCall"
  /\ c_log' = Append(c_log, Call("refreshToken", refreshTok, NULLS, NULLS, <<>>, r))
  /\ IF ExchangeFailed(r)
       THEN CreateCatch("refreshCall") /\ UNCHANGED newTokens
       ELSE c_pc' = "refreshStore" /\ newTokens' = nt /\ UNCHANGED <<c_res, c_sent, c_failedAt>>
  /\ UNCHANGED <<storeVars, clock, nreq, frontVars, notCreate, c_body, accessToken, refreshTok,
                 spotifyPlaylistId, retryId, artists, ai, trackUris, bi, inflight>>

\* RefreshedToken keeping the token the handler had.
RefreshedTokenStale(tokens, old) == old

\* accessToken = await refreshSpotifyToken(...): return newTokens.access_token
RefreshedToken(tokens, old) == tokens.access_token

\* refreshSpotifyToken: UPDATE users SET spotify_credentials = $1; return access_token
RefreshStore(r) ==
  /\ c_pc = "refreshStore"
  /\ IF r = "ok"
       THEN /\ users' = [users EXCEPT ![c_body.spotify_user_id] = newTokens]
            /\ accessToken' = RefreshedToken(newTokens, accessToken)
            /\ c_pc' = "retryCall"
            /\ UNCHANGED <<c_res, c_sent, c_failedAt>>
       ELSE CreateCatch("refreshStore") /\ UNCHANGED <<users, accessToken>>
  /\ UNCHANGED <<playlists, ext, extCount, clock, nreq, frontVars, notCreate, c_body, refreshTok,
                 newTokens, spotifyPlaylistId, retryId, artists, ai, trackUris, bi, inflight, c_log>>

\* RetryFatal without the test of retryResponse.ok: only a rejected fetch throws.
RetryFatalUnchecked(r) == r = "throw"

\* if (!retryResponse.ok) throw
RetryFatal(r) == r # "ok"

\* The retried POST /v1/users/{id}/playlists. Its id is bound to a const declared
\* in the inner block: the function-scoped var read by the later steps keeps
\* its value.
RetryCall(r) ==
  /\ c_pc = "retryCall"
  /\ c_log' = Append(c_log, Call("createPlaylist", accessToken, NULLS, NULLS, <<>>, r))
  /\ IF RetryFatal(r)
       THEN CreateCatch("retryCall") /\ UNCHANGED <<ext, extCount, retryId>>
       ELSE /\ ext' = ExtCreated
            /\ extCount' = extCount + 1
            /\ retryId' = ExtId(extCount + 1)
            /\ c_pc' = "insert"
            /\ UNCHANGED <<c_res, c_sent, c_failedAt>>
  /\ UNCHANGED <<users, playlists, clock, nreq, frontVars, notCreate, c_body, accessToken,
                 refreshTok, newTokens, spotifyPlaylistId, artists, ai, trackUris, bi, inflight>>

\* 3. INSERT INTO playlists (...) VALUES ($1 = spotifyPlaylistId, ...)
InsertRow(r) ==
  /\ c_pc = "insert"
  /\ IF r = "ok"
       THEN /\ playlists' = Append(playlists, NewRow(spotifyPlaylistId, c_body, DaysAhead(c_body)))
            /\ c_pc' = "eventsQuery"
            /\ UNCHANGED <<c_res, c_sent, c_failedAt>>
       ELSE CreateCatch("insert") /\ UNCHANGED playlists
  /\ UNCHANGED <<users, ext, extCount, clock, nreq, frontVars, notCreate, c_body, accessToken,
                 refreshTok, newTokens, spotifyPlaylistId, retryId, artists, ai, trackUris, bi,
                 inflight, c_log>>

\* if (artists.length === 0) return res.status(200).json({ message, playlist_id })
EmptyRes(id) ==
  [NoRes EXCEPT !.status = 200,
                !.message = "Playlist created but no upcoming events found for selected venues",
                !.playlist_id = id]

\* AfterEmptyResult without the return: the handler goes on to its last step.
AfterEmptyResultFallThrough == "persist"

\* return res.status(200).json(...): the handler ends with the empty-result answer
AfterEmptyResult == "done"

\* 4. the events query; rows come back in an order the query does not fix
RunEventsQuery(r, rows) ==
  /\ c_pc = "eventsQuery"
  /\ IF r = "throw"
       THEN CreateCatch("eventsQuery") /\ UNCHANGED artists
       ELSE /\ artists' = rows
            /\ IF Len(rows) = 0
                 THEN /\ c_pc' = AfterEmptyResult
                      /\ c_res' = EmptyRes(spotifyPlaylistId)
                      /\ c_sent' = c_sent + 1
                 ELSE c_pc' = "topTracks" /\ UNCHANGED <<c_res, c_sent>>
            /\ UNCHANGED c_failedAt
  /\ UNCHANGED <<storeVars, clock, nreq, frontVars, notCreate, c_body, accessToken, refreshTok,
                 newTokens, spotifyPlaylistId, retryId, ai, trackUris, bi, inflight, c_log>>

\* LookupFatal without the try/catch around the loop body.
LookupFatalUncaught(r) == r \in {"throw", "malformed"}

\* try { ... } catch (error) { console.error(...) }: no answer of a lookup
\* leaves the loop body.
LookupFatal(r) == FALSE

\* if (topTracksResponse.ok) { topTracks.tracks.slice(0, songs_per_artist) ... push }
TracksToAdd(r, artistId, songs) ==
  IF r = "ok" THEN SliceTo(Catalog(artistId), songs) ELSE <<>>

\* AfterLookups going to step 6 without the batches.
AfterLookupsSkipCommit(uris) == "persist"

\* if (trackUris.length > 0) { batches } ; then step 6
AfterLookups(uris) == IF Len(uris) > 0 THEN "commit" ELSE "persist"

\* Pushed skipping the identifiers that the list already holds.
PushedUnique(uris, tracks) ==
  LET Fresh(t) == \A i \in DOMAIN uris : uris[i] # t
  IN uris \o SelectSeq(tracks, Fresh)

\* Pushed putting the new tracks in front of the list.
PushedFront(uris, tracks) == tracks \o uris

\* for (const track of tracksToAdd) { trackUris.push(track.uri) }
Pushed(uris, tracks) == uris \o tracks

\* 5. one iteration of for (const artist of artists)
TopTracks(r) ==
  /\ c_pc = "topTracks"
  /\ LET artist == artists[ai + 1]
         uris == Pushed(trackUris,
                        TracksToAdd(r, artist.spotify_artist_id, c_body.songs_per_artist))
     IN /\ c_log' = Append(c_log, Call("topTracks", accessToken, NULLS,
                                        artist.spotify_artist_id, <<>>, r))
        /\ IF LookupFatal(r)
             THEN CreateCatch("topTracks") /\ UNCHANGED <<trackUris, ai>>
             ELSE /\ trackUris' = uris
                  /\ ai' = ai + 1
                  /\ c_pc' = IF ai + 1 < Len(artists) THEN "topTracks" ELSE AfterLookups(uris)
                  /\ UNCHANGED <<c_res, c_sent, c_failedAt>>
  /\ UNCHANGED <<storeVars, clock, nreq, frontVars, notCreate, c_body, accessToken, refreshTok,
                 newTokens, spotifyPlaylistId, retryId, artists, bi, inflight>>

\* await fetch(...): the loop does not go on before the call has answered
AfterIssue == "appendWait"

\* for (let i = 0; ...) { const batch = trackUris.slice(i, i + 100); fetch(.../tracks) }
AppendIssue ==
  /\ c_pc = "commit"
  /\ c_log' = Append(c_log, Call("appendTracks", accessToken, spotifyPlaylistId, NULLS,
                                  BatchAt(trackUris, bi), "pending"))
  /\ inflight' = inflight + 1
  /\ bi' = bi
  /\ c_pc' = AfterIssue
  /\ UNCHANGED <<storeVars, clock, nreq, frontVars, notCreate, c_body, accessToken, refreshTok,
                 newTokens, spotifyPlaylistId, retryId, artists, ai, trackUris, c_res, c_sent,
                 c_failedAt>>

\* The answer of an append call that escapes the batch loop: there is no
\* try/catch in the loop and the response is not inspected.
AppendFatal(r) == r = "throw"

\* i += 100, and the loop test i < trackUris.length
AfterBatch(i, uris) == IF i + BatchCap < Len(uris) THEN "commit" ELSE "persist"

\* The external service appended the uris of an accepted call to the playlist.
ExtAppended(pid, uris) == [ext EXCEPT ![pid].tracks = @ \o uris]

\* The append call answers. The service answers ok only for a playlist it has.
AppendReturn(r) ==
  /\ c_pc = "appendWait"
  /\ r = "ok" => spotifyPlaylistId \in DOMAIN ext
  /\ c_log' = [c_log EXCEPT ![Len(c_log)].res = r]
  /\ inflight' = inflight - 1
  /\ ext' = IF r = "ok" THEN ExtAppended(spotifyPlaylistId, c_log[Len(c_log)].uris) ELSE ext
  /\ IF AppendFatal(r)
       THEN CreateCatch("appendTracks") /\ UNCHANGED bi
       ELSE /\ bi' = bi + BatchCap
            /\ c_pc' = AfterBatch(bi, trackUris)
            /\ UNCHANGED <<c_res, c_sent, c_failedAt>>
  /\ UNCHANGED <<users, playlists, extCount, clock, nreq, frontVars, notCreate, c_body, accessToken,
                 refreshTok, newTokens, spotifyPlaylistId, retryId, artists, ai, trackUris>>

\* res.status(200).json({ message, playlist_id, tracks_added, artists_found })
SummaryRes(id, uris, rows) ==
  [NoRes EXCEPT !.status = 200, !.message = "Playlist created successfully",
                !.playlist_id = id, !.tracks_added = Len(uris), !.artists_found = Len(rows)]

\* UPDATE playlists SET playlist_updated_at = CURRENT_TIMESTAMP WHERE playlist_id = $1
Synced(rows, id, now) ==
  [i \in DOMAIN rows |->
     IF SqlEq(rows[i].playlist_id, id)
       THEN [rows[i] EXCEPT !.playlist_updated_at = now] ELSE rows[i]]

\* 6. the last write, and the summary
Persist(r) ==
  /\ c_pc = "persist"
  /\ IF r = "ok"
       THEN /\ playlists' = Synced(playlists, spotifyPlaylistId, clock)
            /\ c_pc' = "done"
            /\ c_res' = SummaryRes(spotifyPlaylistId, trackUris, artists)
            /\ c_sent' = c_sent + 1
            /\ UNCHANGED c_failedAt
       ELSE CreateCatch("persist") /\ UNCHANGED playlists
  /\ UNCHANGED <<users, ext, extCount, clock, nreq, frontVars, notCreate, c_body, accessToken,
                 refreshTok, newTokens, spotifyPlaylistId, retryId, artists, ai, trackUris, bi,
                 inflight, c_log>>

\* ------------------------------------------------------------------ delete

\* if (!playlist_id || !spotify_user_id)
DeleteMissing(body) == body.playlist_id = NULLS \/ body.spotify_user_id = NULLS

DeleteStart(body) ==
  /\ Quiet
  /\ nreq' = nreq + 1
  /\ clock' = clock + 1
  /\ d_body' = body
  /\ d_token' = NULLS
  /\ d_log' = <<>>
  /\ IF DeleteMissing(body)
       THEN d_pc' = "done" /\ d_res' = ErrorRes(400, "Missing required fields")
       ELSE d_pc' = "userQuery" /\ d_res' = NoRes
  /\ CreateReset /\ UpdateReset /\ ListReset
  /\ UNCHANGED <<storeVars, frontVars>>

\* SELECT spotify_credentials FROM users WHERE spotify_user_id = $1
DeleteUserQuery(r) ==
  /\ d_pc = "userQuery"
  /\ IF r = "throw"
       THEN d_pc' = "done" /\ d_res' = ErrorRes(500, "Failed to delete playlist")
            /\ UNCHANGED d_token
       ELSE IF d_body.spotify_user_id \notin DOMAIN users
         THEN d_pc' = "done" /\ d_res' = ErrorRes(404, "User not found") /\ UNCHANGED d_token
         ELSE /\ d_pc' = "unfollow"
              /\ d_token' = users[d_body.spotify_user_id].access_token
              /\ UNCHANGED d_res
  /\ UNCHANGED <<storeVars, clock, nreq, frontVars, notDelete, d_body, d_log>>

\* SpotifyDeleted ignoring the status of the response.
SpotifyDeletedAlways(r) == TRUE

\* deleteSpotifyPlaylist: return response.ok
SpotifyDeleted(r) == r = "ok"

\* The external service removed the playlist from the user's library.
ExtUnfollowed(pid) == [ext EXCEPT ![pid].followed = FALSE]

\* DELETE /v1/playlists/{id}/followers. The service answers ok only for a
\* playlist it has.
Unfollow(r) ==
  /\ d_pc = "unfollow"
  /\ r = "ok" => d_body.playlist_id \in DOMAIN ext
  /\ d_log' = Append(d_log, Call("unfollow", d_token, d_body.playlist_id, NULLS, <<>>, r))
  /\ ext' = IF r = "ok" THEN ExtUnfollowed(d_body.playlist_id) ELSE ext
  /\ IF r = "throw"
       THEN d_pc' = "done" /\ d_res' = ErrorRes(500, "Failed to delete playlist")
       ELSE IF SpotifyDeleted(r)
         THEN d_pc' = "update" /\ UNCHANGED d_res
         ELSE d_pc' = "done" /\ d_res' = ErrorRes(500, "Failed to delete from Spotify")
  /\ UNCHANGED <<users, playlists, extCount, clock, nreq, frontVars, notDelete, d_body, d_token>>

\* WHERE playlist_id = $1 AND spotify_user_id = $2
DeleteMatches(row, body) ==
  SqlEq(row.playlist_id, body.playlist_id) /\ SqlEq(row.spotify_user_id, body.spotify_user_id)

\* Deactivated flipping the active flag instead of clearing it.
DeactivatedToggle(rows, body, now) ==
  [i \in DOMAIN rows |->
     IF DeleteMatches(rows[i], body)
       THEN [rows[i] EXCEPT !.is_active = ~@, !.updated_at = now] ELSE rows[i]]

\* UPDATE playlists SET is_active = false, updated_at = NOW() WHERE ...
Deactivated(rows, body, now) ==
  [i \in DOMAIN rows |->
     IF DeleteMatches(rows[i], body)
       THEN [rows[i] EXCEPT !.is_active = FALSE, !.updated_at = now] ELSE rows[i]]

DeleteOkRes ==
  [NoRes EXCEPT !.status = 200, !.message = "Playlist deleted from Spotify and database"]

\* Soft delete from database, and the response
DeleteUpdate(r) ==
  /\ d_pc = "update"
  /\ d_pc' = "done"
  /\ IF r = "throw"
       THEN d_res' = ErrorRes(500, "Failed to delete playlist") /\ UNCHANGED playlists
       ELSE /\ playlists' = Deactivated(playlists, d_body, clock)
            /\ d_res' = IF \E i \in DOMAIN playlists : DeleteMatches(playlists[i], d_body)
                          THEN DeleteOkRes
                          ELSE ErrorRes(404, "Playlist not found in database")
  /\ UNCHANGED <<users, ext, extCount, clock, nreq, frontVars, notDelete, d_body, d_token, d_log>>

\* ------------------------------------------------------------------ update

\* if (!playlist_id || !spotify_user_id)
UpdateMissing(body) == body.playlist_id = NULLS \/ body.spotify_user_id = NULLS

\* COALESCE overwriting the column with the parameter even when it is NULL.
CoalesceOverwrite(param, column, null) == param

\* COALESCE($n, column)
Coalesce(param, column, null) == IF param = null THEN column ELSE param

\* WHERE playlist_id = $6 AND spotify_user_id = $7
UpdateMatches(row, body) ==
  SqlEq(row.playlist_id, body.playlist_id) /\ SqlEq(row.spotify_user_id, body.spotify_user_id)

\* Rewritten storing a key other than the row's own.
RewrittenRekeyed(row, body, now) ==
  [row EXCEPT !.playlist_id = body.playlist_name, !.updated_at = now]

\* SET playlist_name = COALESCE($1, playlist_name), ..., updated_at = NOW()
Rewritten(row, body, now) ==
  [row EXCEPT !.playlist_name = Coalesce(body.playlist_name, @, NULLS),
              !.playlist_description = Coalesce(body.playlist_description, @, NULLS),
              !.preferred_venues = Coalesce(body.preferred_venues, @, NULLV),
              !.songs_per_artist = Coalesce(body.songs_per_artist, @, NULLN),
              !.days_ahead = Coalesce(body.days_ahead, @, NULLN),
              !.updated_at = now]

\* UPDATE playlists SET ... WHERE ...
Updated(rows, body, now) ==
  [i \in DOMAIN rows |->
     IF UpdateMatches(rows[i], body) THEN Rewritten(rows[i], body, now) ELSE rows[i]]

\* RETURNING *
Returned(rows, body, now) ==
  LET Hit(row) == UpdateMatches(row, body)
  IN SelectSeq(Updated(rows, body, now), Hit)

\* res.status(200).json({ success: true, playlist: result.rows[0] })
UpdateOkRes(rows) == [NoRes EXCEPT !.status = 200, !.playlist_id = rows[1].playlist_id]

UpdateStart(body) ==
  /\ Quiet
  /\ nreq' = nreq + 1
  /\ clock' = clock + 1
  /\ u_body' = body
  /\ u_rows' = <<>>
  /\ IF UpdateMissing(body)
       THEN u_pc' = "done" /\ u_res' = ErrorRes(400, "Missing required fields")
       ELSE u_pc' = "query" /\ u_res' = NoRes
  /\ CreateReset /\ DeleteReset /\ ListReset
  /\ UNCHANGED <<storeVars, frontVars>>

\* The one statement of the handler, and the response
UpdateQuery(r) ==
  /\ u_pc = "query"
  /\ u_pc' = "done"
  /\ IF r = "throw"
       THEN /\ u_res' = ErrorRes(500, "Failed to update playlist")
            /\ UNCHANGED <<playlists, u_rows>>
       ELSE /\ playlists' = Updated(playlists, u_body, clock)
            /\ u_rows' = Returned(playlists, u_body, clock)
            /\ u_res' = IF Len(Returned(playlists, u_body, clock)) = 0
                          THEN ErrorRes(404, "Playlist not found")
                          ELSE UpdateOkRes(Returned(playlists, u_body, clock))
  /\ UNCHANGED <<users, ext, extCount, clock, nreq, frontVars, createVars, deleteVars, listVars,
                 u_body>>

\* ------------------------------------------------------------------ list

\* if (!spotify_user_id)
ListMissing(user) == user = NULLS

\* ListMatches without the test of the active flag.
ListMatchesAnyState(row, user) == SqlEq(row.spotify_user_id, user)

\* WHERE spotify_user_id = $1 and is_active = True
ListMatches(row, user) == SqlEq(row.spotify_user_id, user) /\ row.is_active

\* The columns of the SELECT
Listed(row) ==
  [playlist_id |-> row.playlist_id, playlist_name |-> row.playlist_name,
   playlist_description |-> row.playlist_description,
   preferred_venues |-> row.preferred_venues, songs_per_artist |-> row.songs_per_artist,
   days_ahead |-> row.days_ahead, is_active |-> row.is_active,
   playlist_updated_at |-> row.playlist_updated_at]

\* ORDER BY created_at DESC: the latest insertion first
Reversed(s) == [i \in 1..Len(s) |-> s[Len(s) + 1 - i]]

\* SELECT ... FROM playlists WHERE ... ORDER BY created_at DESC
ListResult(rows, user) ==
  LET Hit(row) == ListMatches(row, user)
      hits == Reversed(SelectSeq(rows, Hit))
  IN [i \in 1..Len(hits) |-> Listed(hits[i])]

ListStart(user) ==
  /\ Quiet
  /\ nreq' = nreq + 1
  /\ clock' = clock + 1
  /\ l_user' = user
  /\ l_rows' = <<>>
  /\ IF ListMissing(user)
       THEN l_pc' = "done" /\ l_res' = ErrorRes(400, "Missing spotify_user_id")
       ELSE l_pc' = "query" /\ l_res' = NoRes
  /\ CreateReset /\ DeleteReset /\ UpdateReset
  /\ UNCHANGED <<storeVars, frontVars>>

ListQuery(r) ==
  /\ l_pc = "query"
  /\ l_pc' = "done"
  /\ IF r = "throw"
       THEN l_res' = ErrorRes(500, "Failed to fetch playlists") /\ UNCHANGED l_rows
       ELSE /\ l_rows' = ListResult(playlists, l_user)
            /\ l_res' = [NoRes EXCEPT !.status = 200]
  /\ UNCHANGED <<storeVars, clock, nreq, frontVars, createVars, deleteVars, updateVars, l_user>>

\* ------------------------------------------------------------------ page

\* NextSundayOffset without the || 7.
NextSundayOffsetNoFallback(day) == (7 - day) % 7

\* ((7 - today.getDay()) % 7 || 7): a 0 is falsy and gives 7
NextSundayOffset(day) == IF (7 - day) % 7 = 0 THEN 7 ELSE (7 - day) % 7

\* today.getDay(): 0 is Sunday, day number 0 is a Sunday
GetDay(date) == date % 7

\* nextSunday.setDate(today.getDate() + offset): the date that many days later
SetNextSunday ==
  /\ nextSunday = NULLN
  /\ nextSunday' = today + NextSundayOffset(GetDay(today))
  /\ UNCHANGED <<storeVars, clock, nreq, createVars, deleteVars, updateVars, listVars, today>>

\* ------------------------------------------------------------------ specifications

\* One request (create, delete, update or list) from its arrival to its response.
Next ==
  \/ nreq = 0 /\ \E body \in CreateBodies : CreateStart(body)
  \/ \E r \in DbOutcomes : CreateUserQuery(r)
  \/ \E r \in FetchOutcomes : CreateCall(r)
  \/ \E r \in {"ok", "error", "throw"}, nt \in TokenResponses : RefreshCall(r, nt)
  \/ \E r \in DbOutcomes : RefreshStore(r)
  \/ \E r \in FetchOutcomes : RetryCall(r)
  \/ \E r \in DbOutcomes : InsertRow(r)
  \/ \E r \in DbOutcomes :
       \E rows \in Orderings(EventsQuery(c_body.preferred_venues, DaysAhead(c_body))) :
         RunEventsQuery(r, rows)
  \/ \E r \in LookupOutcomes : TopTracks(r)
  \/ AppendIssue
  \/ \E r \in FetchOutcomes : AppendReturn(r)
  \/ \E r \in DbOutcomes : Persist(r)
  \/ nreq = 0 /\ \E body \in DeleteBodies : DeleteStart(body)
  \/ \E r \in DbOutcomes : DeleteUserQuery(r)
  \/ \E r \in FetchOutcomes : Unfollow(r)
  \/ \E r \in DbOutcomes : DeleteUpdate(r)
  \/ nreq = 0 /\ \E body \in UpdateBodies : UpdateStart(body)
  \/ \E r \in DbOutcomes : UpdateQuery(r)
  \/ nreq = 0 /\ \E user \in ListUsers : ListStart(user)
  \/ \E r \in DbOutcomes : ListQuery(r)

Spec == Init /\ [][Next]_vars

\* The steps that do not wait for the external service: the answer of a
\* database query, and the issue of an append call.
LocalStep ==
  \/ \E r \in DbOutcomes : CreateUserQuery(r)
  \/ \E r \in DbOutcomes : RefreshStore(r)
  \/ \E r \in DbOutcomes : InsertRow(r)
  \/ \E r \in DbOutcomes :
       \E rows \in Orderings(EventsQuery(c_body.preferred_venues, DaysAhead(c_body))) :
         RunEventsQuery(r, rows)
  \/ AppendIssue
  \/ \E r \in DbOutcomes : Persist(r)
  \/ \E r \in DbOutcomes : DeleteUserQuery(r)
  \/ \E r \in DbOutcomes : DeleteUpdate(r)
  \/ \E r \in DbOutcomes : UpdateQuery(r)
  \/ \E r \in DbOutcomes : ListQuery(r)

\* One request whose database queries are always answered. The fetch calls
\* are given no signal and no timeout: an answer of the external service (a
\* status or a rejection) is a step that may never be taken.
SpecLive == Init /\ [][Next]_vars /\ WF_vars(LocalStep)

\* Sequences of at most MaxRequests requests, one after the other, over a
\* small set of bodies: creates of u1 (one with events in its window, one
\* without, one with out-of-range numbers), deletes, updates and listings of
\* the playlists p0 and p1 by u1 and u2.
SysCreateBodies ==
  {[spotify_user_id |-> "u1", playlist_name |-> "n1", playlist_description |-> "d",
    preferred_venues |-> {"v2"}, songs_per_artist |-> f[1], days_ahead |-> f[2]] :
     f \in {<<1, NULLN>>, <<1, 1>>, <<11, 91>>}}

SysDeleteBodies == [playlist_id : {"p0", "p1"}, spotify_user_id : {"u1", "u2"}]

SysUpdateBodies ==
  {[playlist_id |-> pid, spotify_user_id |-> u, playlist_name |-> f[1],
    playlist_description |-> f[2], preferred_venues |-> f[3], songs_per_artist |-> f[4],
    days_ahead |-> f[5]] :
     pid \in {"p0", "p1"}, u \in {"u1", "u2"},
     f \in {<<"n2", NULLS, NULLV, NULLN, NULLN>>, <<NULLS, "d2", {"v2"}, 5, NULLN>>,
            <<NULLS, NULLS, {}, 0, 120>>, <<"n3", "d3", {"v1", "v2"}, 2, 30>>}}

SysListUsers == {"u1", "u2"}

NextSys ==
  \/ nreq < MaxRequests /\ \E body \in SysCreateBodies : CreateStart(body)
  \/ \E r \in DbOutcomes : CreateUserQuery(r)
  \/ \E r \in FetchOutcomes : CreateCall(r)
  \/ \E r \in {"ok", "error", "throw"}, nt \in TokenResponses : RefreshCall(r, nt)
  \/ \E r \in DbOutcomes : RefreshStore(r)
  \/ \E r \in FetchOutcomes : RetryCall(r)
  \/ \E r \in DbOutcomes : InsertRow(r)
  \/ \E r \in DbOutcomes :
       \E rows \in Orderings(EventsQuery(c_body.preferred_venues, DaysAhead(c_body))) :
         RunEventsQuery(r, rows)
  \/ \E r \in LookupOutcomes : TopTracks(r)
  \/ AppendIssue
  \/ \E r \in FetchOutcomes : AppendReturn(r)
  \/ \E r \in DbOutcomes : Persist(r)
  \/ nreq < MaxRequests /\ \E body \in SysDeleteBodies : DeleteStart(body)
  \/ \E r \in DbOutcomes : DeleteUserQuery(r)
  \/ \E r \in FetchOutcomes : Unfollow(r)
  \/ \E r \in DbOutcomes : DeleteUpdate(r)
  \/ nreq < MaxRequests /\ \E body \in SysUpdateBodies : UpdateStart(body)
  \/ \E r \in DbOutcomes : UpdateQuery(r)
  \/ nreq < MaxRequests /\ \E user \in SysListUsers : ListStart(user)
  \/ \E r \in DbOutcomes : ListQuery(r)

SpecSys == Init /\ [][NextSys]_vars

\* The commit phase of a create whose lookups resolved n track identifiers
\* (1, 2, ..., n), 0 <= n <= MaxUris: the handler stands after the for-of loop,
\* its playlist p1 exists on the external service and in the playlists table.
CommitBody ==
  [spotify_user_id |-> "u1", playlist_name |-> "n1", playlist_description |-> "d",
   preferred_venues |-> {"v1"}, songs_per_artist |-> NULLN, days_ahead |-> NULLN]

InitCommit ==
  \E n \in 0..MaxUris :
    /\ users = InitUsers
    /\ playlists = <<Row0, NewRow("p1", CommitBody, DaysAhead(CommitBody))>>
    /\ ext = [p \in {"p0", "p1"} |-> [tracks |-> <<>>, followed |-> TRUE]]
    /\ extCount = 1
    /\ clock = 1
    /\ nreq = 1
    /\ c_pc = AfterLookups([k \in 1..n |-> k])
    /\ c_body = CommitBody
    /\ accessToken = "tA" /\ refreshTok = "rA" /\ newTokens = NoTokens
    /\ spotifyPlaylistId = "p1" /\ retryId = NULLS
    /\ artists = <<[spotify_artist_id |-> "a1", spotify_artist_name |-> "A"]>>
    /\ ai = 1
    /\ trackUris = [k \in 1..n |-> k]
    /\ bi = 0 /\ inflight = 0
    /\ c_res = NoRes /\ c_sent = 0 /\ c_failedAt = NULLS /\ c_log = <<>>
    /\ DeleteIdle
    /\ UpdateIdle
    /\ ListIdle
    /\ FrontIdle

\* One top-tracks lookup of a create: the handler stands at the for-of loop
\* with one artist to look up, for every songs_per_artist from -2 to MaxSongs
\* or omitted, and for answers of the catalog of 2, 3 and MaxTracks tracks.
SliceSongs == {NULLN} \cup ((0 - 2)..MaxSongs)

InitSlice ==
  \E songs \in SliceSongs, a \in {"a1", "a2", "a3"} :
    LET body == [CommitBody EXCEPT !.songs_per_artist = songs]
    IN /\ users = InitUsers
       /\ playlists = <<Row0, NewRow("p1", body, DaysAhead(body))>>
       /\ ext = [p \in {"p0", "p1"} |-> [tracks |-> <<>>, followed |-> TRUE]]
       /\ extCount = 1
       /\ clock = 1
       /\ nreq = 1
       /\ c_pc = "topTracks"
       /\ c_body = body
       /\ accessToken = "tA" /\ refreshTok = "rA" /\ newTokens = NoTokens
       /\ spotifyPlaylistId = "p1" /\ retryId = NULLS
       /\ artists = <<[spotify_artist_id |-> a, spotify_artist_name |-> "A"]>>
       /\ ai = 0
       /\ trackUris = <<>>
       /\ bi = 0 /\ inflight = 0
       /\ c_res = NoRes /\ c_sent = 0 /\ c_failedAt = NULLS /\ c_log = <<>>
       /\ DeleteIdle
       /\ UpdateIdle
       /\ ListIdle
       /\ FrontIdle

NextSlice == \E r \in LookupOutcomes : TopTracks(r)

SpecSlice == InitSlice /\ [][NextSlice]_vars

\* The page computes the next update on each of the days 0..MaxDay.
InitSunday ==
  /\ users = InitUsers
  /\ playlists = <<Row0>>
  /\ ext = InitExt
  /\ extCount = 0
  /\ clock = 0
  /\ nreq = 0
  /\ CreateIdle
  /\ DeleteIdle
  /\ UpdateIdle
  /\ ListIdle
  /\ today \in 0..MaxDay
  /\ nextSunday = NULLN

NextSunday == SetNextSunday

SpecSunday == InitSunday /\ [][NextSunday]_vars

NextCommit ==
  \/ AppendIssue
  \/ \E r \in FetchOutcomes : AppendReturn(r)
  \/ \E r \in DbOutcomes : Persist(r)

SpecCommit == InitCommit /\ [][NextCommit]_vars

\* ------------------------------------------------------------------ properties

\* Places in a log of the calls of one kind.
CallsOf(log, kind) == {i \in DOMAIN log : log[i].call = kind}

\* Batches needed for n identifiers.
BatchCount(n) == (n + BatchCap - 1) \div BatchCap

\* The uris of the append calls of a log, concatenated in issue order.
RECURSIVE AppendedUris(_)
AppendedUris(log) ==
  IF Len(log) = 0 THEN <<>>
  ELSE (IF Head(log).call = "appendTracks" THEN Head(log).uris ELSE <<>>)
         \o AppendedUris(Tail(log))

\* The tracks of the lookups of a log that answered ok, truncated, in lookup order.
RECURSIVE ResolvedUris(_, _)
ResolvedUris(log, songs) ==
  IF Len(log) = 0 THEN <<>>
  ELSE (IF Head(log).call = "topTracks" /\ Head(log).res = "ok"
          THEN SliceTo(Catalog(Head(log).artist), songs) ELSE <<>>)
         \o ResolvedUris(Tail(log), songs)

\* The first create call answered 401, the refresh succeeded and the retried
\* call answered ok.
RetrySucceeded ==
  /\ Len(c_log) >= 3
  /\ c_log[1].call = "createPlaylist" /\ c_log[1].res = "unauthorized"
  /\ c_log[2].call = "refreshToken" /\ c_log[2].res = "ok"
  /\ c_log[3].call = "createPlaylist" /\ c_log[3].res = "ok"

\* The retried create call answered, and not with ok.
RetryFailed ==
  /\ Len(c_log) >= 3
  /\ c_log[3].call = "createPlaylist" /\ c_log[3].res # "ok"

\* C1: a create whose first create-playlist call got 401, whose refresh
\* succeeded and whose single retried call succeeded ends, when no later step
\* fails, with a success summary naming the id the retry returned, and a
\* playlist row is stored under that id.
C1_RetryEndsSuccessfully ==
  (c_pc = "done" /\ RetrySucceeded /\ c_failedAt = NULLS)
    => /\ Cardinality(CallsOf(c_log, "createPlaylist")) = 2
       /\ c_res.status = 200
       /\ c_res.playlist_id = retryId
       /\ \E i \in DOMAIN playlists : playlists[i].playlist_id = retryId

\* C2: one operation calls the token refresh at most once (delete never); once
\* the retried create call has failed the operation has ended with an error,
\* that call is its last external call and no playlist row was inserted.
C2_RefreshAtMostOnce ==
  /\ Cardinality(CallsOf(c_log, "refreshToken")) <= 1
  /\ CallsOf(d_log, "refreshToken") = {}
  /\ RetryFailed =>
       /\ c_pc = "done"
       /\ c_res.status = 500
       /\ Len(c_log) = 3
       /\ playlists = <<Row0>>

\* A create has ended after its retried call failed.
C2_Witness == c_pc = "done" /\ RetryFailed /\ c_log[3].res = "unauthorized"

\* C3: when the unfollow call of a delete did not answer ok, the playlists
\* table is as it was and the response is an error; a row is inactive only
\* when the unfollow call for its id answered ok.
C3_DeleteGuard ==
  /\ (Len(d_log) = 1 /\ d_log[1].res # "ok") =>
       /\ d_pc = "done"
       /\ d_res.status = 500
       /\ playlists = <<Row0>>
  /\ \A i \in DOMAIN playlists :
       ~playlists[i].is_active =>
         /\ Len(d_log) = 1
         /\ d_log[1].call = "unfollow"
         /\ d_log[1].res = "ok"
         /\ d_log[1].pid = playlists[i].playlist_id

\* A delete of the stored playlist p0 by its owner has ended after its
\* unfollow call failed.
C3_Witness ==
  /\ d_pc = "done"
  /\ d_body = [playlist_id |-> "p0", spotify_user_id |-> "u2"]
  /\ Len(d_log) = 1
  /\ d_log[1].res \in {"unauthorized", "error", "throw"}

\* C4: every external call that answered 401 (the first create-playlist call,
\* a top-tracks lookup, an append batch, the unfollow call of delete) is
\* followed by a token refresh of the same operation.
C4_AuthErrorRefreshes ==
  /\ \A i \in DOMAIN c_log :
       (/\ c_log[i].res = "unauthorized"
        /\ i = 1 \/ c_log[i].call \in {"topTracks", "appendTracks"}
        /\ c_pc = "done")
         => \E j \in DOMAIN c_log : j > i /\ c_log[j].call = "refreshToken"
  /\ \A i \in DOMAIN d_log :
       (d_log[i].res = "unauthorized" /\ d_pc = "done")
         => \E j \in DOMAIN d_log : j > i /\ d_log[j].call = "refreshToken"

\* The token exchange of the refresh was called and failed.
ExchangeHasFailed ==
  /\ Len(c_log) >= 2
  /\ c_log[2].call = "refreshToken" /\ c_log[2].res # "ok"

\* C5: once the token exchange has failed the create has ended with an error,
\* the exchange is its last external call (no retried create call, no append),
\* and the stored credentials, the playlists table and the external
\* playlists are as they were.
C5_ExchangeFailureAborts ==
  ExchangeHasFailed =>
    /\ c_pc = "done"
    /\ c_res.status = 500
    /\ Len(c_log) = 2
    /\ users = InitUsers
    /\ playlists = <<Row0>>
    /\ ext = InitExt

\* A create has ended after the token endpoint refused the exchange.
C5_Witness == c_pc = "done" /\ ExchangeHasFailed /\ c_log[2].res = "error"

\* C6: a finished create with n > 0 resolved identifiers has issued exactly
\* ceil(n / 100) append calls of at most 100 identifiers each whose
\* concatenation is the resolved list, and never has more than one append
\* call in flight.
C6_BatchCommit ==
  /\ inflight <= 1
  /\ \A i \in CallsOf(c_log, "appendTracks") : Len(c_log[i].uris) <= BatchCap
  /\ (c_pc = "done" /\ Len(trackUris) > 0) =>
       /\ Cardinality(CallsOf(c_log, "appendTracks")) = BatchCount(Len(trackUris))
       /\ AppendedUris(c_log) = trackUris

\* C7: a finished create in which an append call failed (error answer or
\* rejected call) has still issued every batch and sent its summary.
C7_BatchFailureContinues ==
  (/\ c_pc = "done"
   /\ \E i \in CallsOf(c_log, "appendTracks") : c_log[i].res \in {"unauthorized", "error", "throw"})
    => /\ Cardinality(CallsOf(c_log, "appendTracks")) = BatchCount(Len(trackUris))
       /\ c_res.status = 200

\* C8: no answer of a top-tracks lookup ends the create: the catch is never
\* reached from a lookup, once the loop is left every artist has been looked
\* up in order, the track list holds the truncated tracks of exactly the
\* lookups that answered ok, and a create that ends without an exception
\* after its lookups sends the 200 summary.
C8_LookupFailureNotFatal ==
  /\ c_failedAt # "topTracks"
  /\ (c_pc # "topTracks" /\ CallsOf(c_log, "topTracks") # {}) =>
       /\ Cardinality(CallsOf(c_log, "topTracks")) = Len(artists)
       /\ \A k \in 1..Len(artists) :
            \E i \in CallsOf(c_log, "topTracks") :
              /\ Cardinality({j \in CallsOf(c_log, "topTracks") : j <= i}) = k
              /\ c_log[i].artist = artists[k].spotify_artist_id
  /\ trackUris = ResolvedUris(c_log, c_body.songs_per_artist)
  /\ (c_pc = "done" /\ CallsOf(c_log, "topTracks") # {} /\ c_failedAt = NULLS) =>
       /\ c_res.status = 200
       /\ c_res.tracks_added = Len(trackUris)

\* A create sent its summary although the lookup of an artist failed before
\* the lookup of a later artist succeeded.
C8_Witness ==
  /\ c_pc = "done"
  /\ c_res.status = 200
  /\ c_res.tracks_added > 0
  /\ \E i, j \in CallsOf(c_log, "topTracks") :
       i < j /\ c_log[i].res \in {"error", "throw", "malformed"} /\ c_log[j].res = "ok"

\* C9: in the summary of a create, artists_found is the number of artists
\* whose lookup answered ok and tracks_added the number of their tracks.
C9_SummaryCountsSuccesses ==
  (c_pc = "done" /\ c_res.status = 200 /\ Len(artists) > 0) =>
    /\ c_res.artists_found =
         Cardinality({i \in CallsOf(c_log, "topTracks") : c_log[i].res = "ok"})
    /\ c_res.tracks_added = Len(ResolvedUris(c_log, c_body.songs_per_artist))

\* C10: a create whose events query returned no artist answers 200 with
\* tracks_added = 0 and artists_found = 0, after having created the external
\* playlist and inserted its row.
C10_EmptyResultSummary ==
  (c_pc = "done" /\ c_res.status = 200 /\ Len(artists) = 0 /\ c_failedAt = NULLS) =>
    /\ c_res.tracks_added = 0
    /\ c_res.artists_found = 0
    /\ extCount = 1
    /\ Len(playlists) = 2

\* A create body the input contract rejects: no name, no venue, or a number
\* outside its range (an omitted days_ahead counts as its default).
InvalidCreate(body) ==
  \/ body.playlist_name = NULLS
  \/ body.preferred_venues = {}
  \/ body.songs_per_artist # NULLN /\ body.songs_per_artist \notin 1..10
  \/ DaysAhead(body) \notin 1..90

\* C11: a create request with a missing name, an empty venue selection,
\* songs_per_artist outside 1..10 or days_ahead outside 1..90 is answered with
\* an error at once: no external call is made, no store is read or written.
C11_ValidationPrecedesEffects ==
  (c_pc # "idle" /\ InvalidCreate(c_body)) =>
    /\ c_pc = "done"
    /\ c_res.status = 400
    /\ c_log = <<>>
    /\ users = InitUsers /\ playlists = <<Row0>> /\ ext = InitExt /\ extCount = 0

\* C12: every stored playlist row has songs_per_artist in 1..10 and days_ahead
\* in 1..90 (a column left NULL is not counted against the bounds).
C12_StoredBoundsHold ==
  \A i \in DOMAIN playlists :
    /\ playlists[i].songs_per_artist # NULLN => playlists[i].songs_per_artist \in 1..10
    /\ playlists[i].days_ahead # NULLN => playlists[i].days_ahead \in 1..90

\* C13: the venue-id set of every stored playlist row is non-empty, also
\* after an update that supplies an empty venue list.
C13_VenuesNonEmpty ==
  \A i \in DOMAIN playlists : playlists[i].preferred_venues # {}

\* C14: no step removes a row or changes the playlist_id of an existing row,
\* and the step of an update leaves the external service as it was: it
\* creates no external playlist.
C14_ExternalIdImmutable ==
  [][/\ Len(playlists') >= Len(playlists)
     /\ \A i \in DOMAIN playlists : playlists'[i].playlist_id = playlists[i].playlist_id
     /\ u_pc = "query" => (ext' = ext /\ extCount' = extCount)]_vars

\* A second update of a row has answered 200: the row carries the name an
\* earlier update gave it and the venues of this one, under its own id.
C14_Witness ==
  /\ nreq = 2
  /\ u_pc = "done"
  /\ u_res.status = 200
  /\ u_body.playlist_name = NULLS
  /\ \E i \in DOMAIN playlists :
       /\ playlists[i].playlist_id = u_body.playlist_id
       /\ playlists[i].playlist_name = "n2"
       /\ playlists[i].preferred_venues = u_body.preferred_venues

\* C15: the step of an update leaves the credentials, the external service
\* and the number of rows as they were; it leaves every row's id, owner,
\* active flag and last-sync timestamp as they were; in a row it matched, each
\* of name, description, venues, songs-per-artist and days-ahead has the
\* supplied value if one was supplied and its previous value otherwise; every
\* other row is as it was.
C15_UpdateFrame ==
  [][u_pc = "query" =>
       /\ users' = users /\ ext' = ext /\ extCount' = extCount
       /\ Len(playlists') = Len(playlists)
       /\ \A i \in DOMAIN playlists :
            LET old == playlists[i]
                new == playlists'[i]
            IN /\ new.playlist_id = old.playlist_id
               /\ new.spotify_user_id = old.spotify_user_id
               /\ new.is_active = old.is_active
               /\ new.playlist_updated_at = old.playlist_updated_at
               /\ IF u_res'.status = 200 /\ old.playlist_id = u_body.playlist_id
                       /\ old.spotify_user_id = u_body.spotify_user_id
                    THEN /\ new.playlist_name =
                              IF u_body.playlist_name = NULLS
                                THEN old.playlist_name ELSE u_body.playlist_name
                         /\ new.playlist_description =
                              IF u_body.playlist_description = NULLS
                                THEN old.playlist_description ELSE u_body.playlist_description
                         /\ new.preferred_venues =
                              IF u_body.preferred_venues = NULLV
                                THEN old.preferred_venues ELSE u_body.preferred_venues
                         /\ new.songs_per_artist =
                              IF u_body.songs_per_artist = NULLN
                                THEN old.songs_per_artist ELSE u_body.songs_per_artist
                         /\ new.days_ahead =
                              IF u_body.days_ahead = NULLN
                                THEN old.days_ahead ELSE u_body.days_ahead
                    ELSE new = old]_vars

\* An update that supplied a name and no venues has answered 200 while the
\* table holds two rows: the matched row has the new name and the venues it had.
C15_Witness ==
  /\ u_pc = "done"
  /\ u_res.status = 200
  /\ Len(playlists) = 2
  /\ u_body.playlist_name = "n2"
  /\ u_body.preferred_venues = NULLV
  /\ \E i \in DOMAIN playlists :
       /\ playlists[i].playlist_id = u_body.playlist_id
       /\ playlists[i].playlist_name = "n2"
       /\ playlists[i].preferred_venues \in {{"v1"}, {"v2"}}

\* The rows of the playlists table that a user owns and that are active.
ActiveOf(user) ==
  {i \in DOMAIN playlists : playlists[i].spotify_user_id = user /\ playlists[i].is_active}

\* C16: a listing that answered 200 holds one entry for each active row of
\* the user and nothing else, so no inactive row and no row of another user
\* is listed; and the soft delete of a playlist removes no row from the table.
C16_ListActiveOnly ==
  /\ []((l_pc = "done" /\ l_res.status = 200) =>
          /\ Len(l_rows) = Cardinality(ActiveOf(l_user))
          /\ \A i \in ActiveOf(l_user) :
               \E k \in DOMAIN l_rows :
                 /\ l_rows[k].playlist_id = playlists[i].playlist_id
                 /\ l_rows[k].playlist_name = playlists[i].playlist_name
                 /\ l_rows[k].preferred_venues = playlists[i].preferred_venues
          /\ \A k \in DOMAIN l_rows :
               /\ l_rows[k].is_active
               /\ \E i \in ActiveOf(l_user) :
                    l_rows[k].playlist_id = playlists[i].playlist_id)
  /\ [][d_pc = "update" =>
          /\ Len(playlists') = Len(playlists)
          /\ \A i \in DOMAIN playlists :
               playlists'[i].playlist_id = playlists[i].playlist_id]_vars

\* A listing of a user has answered 200 after a playlist of that user was
\* deleted: the inactive row is in the table and not in the listing.
C16_Witness ==
  /\ l_pc = "done"
  /\ l_res.status = 200
  /\ \E i \in DOMAIN playlists :
       /\ playlists[i].spotify_user_id = l_user
       /\ ~playlists[i].is_active
       /\ \A k \in DOMAIN l_rows : l_rows[k].playlist_id # playlists[i].playlist_id

\* C17: a create whose last write (the last-sync timestamp) failed answers
\* with an error and no summary, and the last-sync timestamp of its row is
\* the one the row had before the write.
C17_PersistFailureSurfaced ==
  (c_pc = "done" /\ c_failedAt = "persist") =>
    /\ c_res.status = 500
    /\ c_res.error # NULLS
    /\ c_res.message = NULLS /\ c_res.tracks_added = NULLN /\ c_res.artists_found = NULLN
    /\ \A i \in DOMAIN playlists :
         playlists[i].playlist_id = spotifyPlaylistId => playlists[i].playlist_updated_at = NULLN

\* The last write of a create failed after the external playlist had
\* received tracks.
C17_Witness ==
  /\ c_pc = "done"
  /\ c_failedAt = "persist"
  /\ spotifyPlaylistId \in DOMAIN ext
  /\ Len(ext[spotifyPlaylistId].tracks) > 0
  /\ \E i \in DOMAIN playlists : playlists[i].playlist_id = spotifyPlaylistId

\* C18: a create sends no response before it ends and exactly one when it
\* ends; the response is either a success (status 200, no error text) or an
\* error (status 400, 404 or 500, an error text and no summary field), and a
\* success is sent only when no exception reached the catch block, a
\* create-playlist call answered ok and no token refresh failed.
C18_ExactlyOneOutcome ==
  /\ c_pc \notin {"idle", "done"} => (c_sent = 0 /\ c_res = NoRes)
  /\ c_pc = "done" =>
       /\ c_sent = 1
       /\ \/ /\ c_res.status = 200
             /\ c_res.error = NULLS
             /\ c_res.message # NULLS
          \/ /\ c_res.status \in {400, 404, 500}
             /\ c_res.error # NULLS
             /\ c_res.message = NULLS /\ c_res.playlist_id = NULLS
             /\ c_res.tracks_added = NULLN /\ c_res.artists_found = NULLN
       /\ c_res.status = 200 =>
            /\ c_failedAt = NULLS
            /\ \E i \in CallsOf(c_log, "createPlaylist") : c_log[i].res = "ok"
            /\ \A i \in CallsOf(c_log, "refreshToken") : c_log[i].res = "ok"
       /\ c_failedAt # NULLS => c_res.status = 500

\* A create has ended with the empty-result answer, its only response.
C18_Witness ==
  /\ c_pc = "done"
  /\ c_sent = 1
  /\ c_res.status = 200
  /\ c_res.tracks_added = NULLN
  /\ Len(artists) = 0
  /\ Len(playlists) = 2

\* The steps of a create whose failure is fatal, by the state the operation
\* is in: credential refresh, external playlist creation, metadata persistence.
FatalStates ==
  [refreshCall |-> "refresh", refreshStore |-> "refresh", createCall |-> "creation",
   retryCall |-> "creation", insert |-> "persistence", persist |-> "persistence"]

\* C19: the error of a create that a fatal failure aborted tells the state in
\* which it failed: the error sent for a failure in one of the states credential
\* refresh, playlist creation, metadata persistence is not the error that a
\* failure in another of these states is answered with.
C19_ErrorNamesState ==
  (c_pc = "done" /\ c_failedAt \in DOMAIN FatalStates) =>
    \A step \in DOMAIN FatalStates :
      FatalStates[step] # FatalStates[c_failedAt] => c_res.error # CatchError(step)

\* C20: every started create and every started delete eventually sends its
\* response, also when a call to the external service never answers.
C20_EveryOperationResponds ==
  /\ (c_pc # "idle") ~> (c_pc = "done")
  /\ (d_pc # "idle") ~> (d_pc = "done")

\* C21: the rows of the events query of a create hold each artist id at most
\* once, whatever the selected venues and the window.
C21_ArtistIdsDistinct ==
  \A i, j \in DOMAIN artists :
    i # j => artists[i].spotify_artist_id # artists[j].spotify_artist_id

\* The limit of a create: its songs_per_artist, or the largest value of the
\* input contract when the request omits it.
LimitOf(body) == IF body.songs_per_artist = NULLN THEN SongsMax ELSE body.songs_per_artist

\* C22: after a lookup that answered ok, the tracks the artist contributed
\* are the first min(limit, n) tracks of the catalog's n-track answer, in
\* catalog order, and they are not more than the limit.
C22_TruncatedToLimit ==
  (Len(c_log) = 1 /\ c_log[1].call = "topTracks" /\ c_log[1].res = "ok") =>
    LET answer == Catalog(c_log[1].artist)
        kept == Max(Min(LimitOf(c_body), Len(answer)), 0)
    IN /\ trackUris = SubSeq(answer, 1, kept)
       /\ Len(trackUris) <= Max(LimitOf(c_body), 0)

\* Occurrences of a value in a sequence.
Count(t, s) == Cardinality({i \in DOMAIN s : s[i] = t})

\* The lookups of the log that answered ok and whose truncated answer holds t.
LookupsWith(t) ==
  {i \in CallsOf(c_log, "topTracks") :
     /\ c_log[i].res = "ok"
     /\ \E k \in DOMAIN SliceTo(Catalog(c_log[i].artist), c_body.songs_per_artist) :
          SliceTo(Catalog(c_log[i].artist), c_body.songs_per_artist)[k] = t}

\* C23: a track identifier occurs in the track list of a create once for
\* each lookup whose truncated answer holds it, so an identifier that two
\* artists share occurs twice; the batches issued carry the list as it is and
\* tracks_added of the summary is its length, both occurrences counted.
C23_NoDeduplication ==
  /\ \A t \in 1..MaxTracks : Count(t, trackUris) = Cardinality(LookupsWith(t))
  /\ (c_pc \in {"persist", "done"} /\ CallsOf(c_log, "appendTracks") # {}
        /\ c_failedAt # "appendTracks") => AppendedUris(c_log) = trackUris
  /\ (c_pc = "done" /\ c_res.status = 200 /\ Len(artists) > 0) =>
       c_res.tracks_added = Len(trackUris)

\* A create has sent its summary after two different artists returned the
\* same track: the track is twice in the list that was appended.
C23_Witness ==
  /\ c_pc = "done"
  /\ c_res.status = 200
  /\ \E i, j \in CallsOf(c_log, "topTracks") :
       /\ c_log[i].artist # c_log[j].artist
       /\ c_log[i].res = "ok" /\ c_log[j].res = "ok"
  /\ Count(1, trackUris) = 2
  /\ Count(1, AppendedUris(c_log)) = 2
  /\ c_res.tracks_added = Len(trackUris)

\* The track list assembled from the first k artists of rows: for each artist
\* in the order of rows, the truncated answer of its lookup if the lookup
\* answered ok (lookups[i] is the lookup of rows[i]).
RECURSIVE Assembled(_, _, _, _)
Assembled(rows, lookups, songs, k) ==
  IF k = 0 THEN <<>>
  ELSE Assembled(rows, lookups, songs, k - 1)
         \o (IF lookups[k].res = "ok"
               THEN SliceTo(Catalog(rows[k].spotify_artist_id), songs) ELSE <<>>)

\* C24: the track list of a create is a function of the rows of the events
\* query, in their order, and of the answers of the catalog: the i-th lookup
\* is the lookup of the i-th row, the list is the concatenation of the
\* artists' truncated answers in that order, and the k-th append call carries
\* the k-th slice of 100 of that list to the operation's playlist.
C24_DeterministicAssembly ==
  LET IsLookup(c) == c.call = "topTracks"
      IsAppend(c) == c.call = "appendTracks"
      lookups == SelectSeq(c_log, IsLookup)
      appends == SelectSeq(c_log, IsAppend)
  IN /\ Len(lookups) <= Len(artists)
     /\ \A i \in DOMAIN lookups : lookups[i].artist = artists[i].spotify_artist_id
     /\ trackUris = Assembled(artists, lookups, c_body.songs_per_artist, Len(lookups))
     /\ appends # <<>> => Len(lookups) = Len(artists)
     /\ \A k \in DOMAIN appends :
          /\ appends[k].uris = BatchAt(trackUris, (k - 1) * BatchCap)
          /\ appends[k].pid = spotifyPlaylistId

\* A create whose events query returned a2 before the two rows of a1 has
\* sent its summary: the appended list is a2's tracks followed by a1's, twice.
C24_Witness ==
  /\ c_pc = "done"
  /\ c_res.status = 200
  /\ Len(artists) = 3
  /\ artists[1].spotify_artist_id = "a2"
  /\ AppendedUris(c_log) = <<1, 4, 1, 2, 3, 1, 2, 3>>

\* C25: for every weekday of today the offset lies in 1..7; it is 7 on a
\* Sunday and 4 on a Wednesday; the next update is a Sunday, strictly after
\* today and at most 7 days later.
C25_NextSunday ==
  /\ NextSundayOffset(GetDay(today)) \in 1..7
  /\ GetDay(today) = 0 => NextSundayOffset(GetDay(today)) = 7
  /\ GetDay(today) = 3 => NextSundayOffset(GetDay(today)) = 4
  /\ nextSunday # NULLN =>
       /\ nextSunday % 7 = 0
       /\ nextSunday > today
       /\ nextSunday - today <= 7
       /\ \A date \in (today + 1)..(nextSunday - 1) : date % 7 # 0

\* The next update was computed on a Sunday: it is the Sunday a week later.
C25_Witness ==
  /\ today > 0
  /\ today % 7 = 0
  /\ nextSunday = today + 7

\* C26: a create that answered 200 has set the last-sync timestamp of the
\* row it inserted to the time of the operation, also when the events query
\* returned no artist.
C26_SuccessAdvancesSync ==
  (c_pc = "done" /\ c_res.status = 200) =>
    \E i \in DOMAIN playlists :
      /\ playlists[i].spotify_user_id = c_body.spotify_user_id
      /\ playlists[i].playlist_name = c_body.playlist_name
      /\ playlists[i].playlist_updated_at = clock

\* Position of a step of create in the order of the operation.
StepRank(pc) ==
  CASE pc = "idle" -> 0
    [] pc = "userQuery" -> 1
    [] pc = "createCall" -> 2
    [] pc = "refreshCall" -> 3
    [] pc = "refreshStore" -> 4
    [] pc = "retryCall" -> 5
    [] pc = "insert" -> 6
    [] pc = "eventsQuery" -> 7
    [] pc = "topTracks" -> 8
    [] pc \in {"commit", "appendWait"} -> 9
    [] pc = "persist" -> 10
    [] pc = "done" -> 11

\* A create-playlist call of the log before place i answered ok.
CreatedBefore(i) ==
  \E j \in CallsOf(c_log, "createPlaylist") : j < i /\ c_log[j].res = "ok"

\* C27: the steps of a create follow the order of the operation. The first
\* external call is the create-playlist call and carries the token read from
\* the users table; the handler is at its insert, its events query, its
\* lookups or its appends only after a create-playlist call answered ok; every
\* lookup is before every append call and the appends begin after the lookup
\* of the last artist; the row has a last-sync timestamp only when every batch
\* was issued and answered; no step goes back to an earlier step, and no
\* answer of a lookup ends the operation.
C27_StepOrder ==
  /\ [](/\ c_log # <<>> =>
             /\ c_log[1].call = "createPlaylist"
             /\ c_log[1].tok # NULLS
             /\ c_log[1].tok = accessToken \/ CallsOf(c_log, "refreshToken") # {}
        /\ StepRank(c_pc) \in 6..10 => CreatedBefore(Len(c_log) + 1)
        /\ artists # <<>> => CreatedBefore(Len(c_log) + 1)
        /\ \A i \in CallsOf(c_log, "topTracks") \cup CallsOf(c_log, "appendTracks") :
             CreatedBefore(i)
        /\ \A i \in CallsOf(c_log, "topTracks"), j \in CallsOf(c_log, "appendTracks") : i < j
        /\ CallsOf(c_log, "appendTracks") # {} =>
             Cardinality(CallsOf(c_log, "topTracks")) = Len(artists)
        /\ (\E i \in DOMAIN playlists : i > 1 /\ playlists[i].playlist_updated_at # NULLN) =>
             /\ c_pc = "done"
             /\ Cardinality(CallsOf(c_log, "appendTracks")) = BatchCount(Len(trackUris))
             /\ \A j \in CallsOf(c_log, "appendTracks") : c_log[j].res # "pending"
        /\ c_failedAt # "topTracks")
  /\ [][c_pc \notin {"idle", "done"} =>
          /\ StepRank(c_pc') >= StepRank(c_pc)
          /\ c_pc = "topTracks" => (ai' = ai + 1 \/ c_pc' = "done")]_vars

\* A create has sent its summary and written the last-sync timestamp after
\* the lookup of one artist failed and an append call was answered.
C27_Witness ==
  /\ c_pc = "done"
  /\ c_res.status = 200
  /\ \E i \in CallsOf(c_log, "topTracks") : c_log[i].res \in {"error", "throw", "malformed"}
  /\ \E j \in CallsOf(c_log, "appendTracks") : c_log[j].res = "ok"
  /\ \E i \in DOMAIN playlists : i > 1 /\ playlists[i].playlist_updated_at = clock

\* The refresh of this create has succeeded: the token endpoint answered ok
\* and the new credentials were stored.
RefreshDone ==
  /\ \E i \in CallsOf(c_log, "refreshToken") : c_log[i].res = "ok"
  /\ c_pc # "refreshStore"
  /\ c_failedAt # "refreshStore"

\* C28: once the refresh of a create has succeeded, the credentials stored
\* for its user are the answer of the token endpoint, the credentials of the
\* other users are those of their logins, and every external call issued after
\* the refresh carries the new access token and not the old one; before that,
\* the users table is as the logins left it.
C28_RefreshedCredentials ==
  IF RefreshDone
    THEN /\ users[c_body.spotify_user_id] = newTokens
         /\ newTokens \in TokenResponses
         /\ \A u \in DOMAIN users \ {c_body.spotify_user_id} : users[u] = InitUsers[u]
         /\ \A i \in CallsOf(c_log, "refreshToken"), j \in DOMAIN c_log :
              j > i =>
                /\ c_log[j].tok = newTokens.access_token
                /\ c_log[j].tok # InitUsers[c_body.spotify_user_id].access_token
    ELSE users = InitUsers

\* After a refresh the retried create-playlist call, a lookup and an append
\* call were issued.
C28_Witness ==
  /\ RefreshDone
  /\ \E i \in CallsOf(c_log, "refreshToken") :
       /\ \E j \in CallsOf(c_log, "createPlaylist") : j > i
       /\ \E j \in CallsOf(c_log, "topTracks") : j > i
       /\ \E j \in CallsOf(c_log, "appendTracks") : j > i
  /\ users["u1"].access_token = "tA2"

\* C29: when a create has ended with an error, every external playlist that
\* the operation created is the playlist_id of a row of the playlists table.
C29_NoOrphanPlaylist ==
  (c_pc = "done" /\ c_res.status >= 400) =>
    \A p \in DOMAIN ext \ DOMAIN InitExt :
      \E i \in DOMAIN playlists : playlists[i].playlist_id = p

\* C30: a delete issues its unfollow call only when the playlists table holds
\* a row with the playlist id and the user of the request, and a delete that
\* answered 404 has issued no unfollow call.
C30_UnfollowOnlyOwned ==
  /\ d_log # <<>> =>
       \E i \in DOMAIN playlists :
         /\ playlists[i].playlist_id = d_body.playlist_id
         /\ playlists[i].spotify_user_id = d_body.spotify_user_id
  /\ (d_pc = "done" /\ d_res.status = 404) => d_log = <<>>

\* ------------------------------------------------------------------ concurrent requests

\* A delete request that arrives while another handler is between two of its
\* awaits: the locals of that handler stay as they are.
DeleteArrive(body) ==
  /\ nreq' = nreq + 1
  /\ clock' = clock + 1
  /\ d_body' = body
  /\ d_token' = NULLS
  /\ d_log' = <<>>
  /\ IF DeleteMissing(body)
       THEN d_pc' = "done" /\ d_res' = ErrorRes(400, "Missing required fields")
       ELSE d_pc' = "userQuery" /\ d_res' = NoRes
  /\ UNCHANGED <<storeVars, frontVars, notDelete>>

\* The create of the race: u1 asks for a playlist of venue v2, whose window
\* holds one artist; the external service names the playlist p1.
RaceCreateBody ==
  [spotify_user_id |-> "u1", playlist_name |-> "n1", playlist_description |-> "d",
   preferred_venues |-> {"v2"}, songs_per_artist |-> 2, days_ahead |-> NULLN]

\* The deletes of the race: u1 deletes the playlist p1 of the create.
RaceDeleteBodies == {[playlist_id |-> "p1", spotify_user_id |-> "u1"]}

\* One create and one delete of the playlist it creates. The delete arrives
\* at any await of the create; from then on the steps of the two handlers
\* interleave freely, as the event loop runs whichever awaited call answered.
NextRace ==
  \/ nreq = 0 /\ CreateStart(RaceCreateBody)
  \/ \E r \in DbOutcomes : CreateUserQuery(r)
  \/ \E r \in FetchOutcomes : CreateCall(r)
  \/ \E r \in {"ok", "error", "throw"}, nt \in TokenResponses : RefreshCall(r, nt)
  \/ \E r \in DbOutcomes : RefreshStore(r)
  \/ \E r \in FetchOutcomes : RetryCall(r)
  \/ \E r \in DbOutcomes : InsertRow(r)
  \/ \E r \in DbOutcomes :
       \E rows \in Orderings(EventsQuery(c_body.preferred_venues, DaysAhead(c_body))) :
         RunEventsQuery(r, rows)
  \/ \E r \in LookupOutcomes : TopTracks(r)
  \/ AppendIssue
  \/ \E r \in FetchOutcomes : AppendReturn(r)
  \/ \E r \in DbOutcomes : Persist(r)
  \/ /\ c_pc \notin {"idle", "done"}
     /\ d_pc = "idle"
     /\ \E body \in RaceDeleteBodies : DeleteArrive(body)
  \/ \E r \in DbOutcomes : DeleteUserQuery(r)
  \/ \E r \in FetchOutcomes : Unfollow(r)
  \/ \E r \in DbOutcomes : DeleteUpdate(r)

SpecRace == Init /\ [][NextRace]_vars

\* C31: whatever the interleaving of a delete with the create of the same
\* playlist, a step taken while the row of a playlist is inactive appends no
\* track to the external playlist of that row and leaves its last-sync
\* timestamp as it was.
C31_InactiveRowNotSynced ==
  [][\A i \in DOMAIN playlists :
       ~playlists[i].is_active =>
         /\ playlists'[i].playlist_updated_at = playlists[i].playlist_updated_at
         /\ playlists[i].playlist_id \in DOMAIN ext =>
              ext'[playlists[i].playlist_id].tracks = ext[playlists[i].playlist_id].tracks]_vars

\* The track identifiers that the external service holds in the playlist of
\* this create: those of the append calls it answered ok.
AcceptedCount ==
  IF spotifyPlaylistId \in DOMAIN ext THEN Len(ext[spotifyPlaylistId].tracks) ELSE 0

\* C32: tracks_added of the summary of a create is the number of track
\* identifiers that the external service accepted into the playlist: the
\* identifiers of a batch whose append call failed are not counted.
C32_TracksAddedCountsAccepted ==
  (c_pc = "done" /\ c_res.status = 200 /\ c_res.tracks_added # NULLN) =>
    c_res.tracks_added = AcceptedCount

\* The request names a user and the playlist of a row that another user owns.
ForeignRequest(body) ==
  /\ body.spotify_user_id # NULLS
  /\ \E i \in DOMAIN playlists :
       /\ playlists[i].playlist_id = body.playlist_id
       /\ playlists[i].spotify_user_id # body.spotify_user_id

\* A database statement of the delete failed: the catch answered although no
\* call to the external service was rejected.
DeleteDbFailed ==
  /\ d_res.error = "Failed to delete playlist"
  /\ \A i \in DOMAIN d_log : d_log[i].res # "throw"

\* C33: an update or a delete that names a playlist owned by another user
\* has left the rows of the table as they were (active flag and sync parameters
\* included) and, when its database statements were answered, its response is
\* 'not found'.
C33_OnlyOwnedRowsModified ==
  /\ (u_pc = "done" /\ ForeignRequest(u_body)) =>
       /\ playlists = <<Row0>>
       /\ u_res.error # "Failed to update playlist" => u_res.status = 404
  /\ (d_pc = "done" /\ ForeignRequest(d_body)) =>
       /\ playlists = <<Row0>>
       /\ ~DeleteDbFailed => d_res.status = 404

\* C34: no step of a create, an update, a delete or a listing makes an
\* inactive row active again, and no step makes the playlists table shorter.
C34_ActiveMonotone ==
  [][/\ Len(playlists') >= Len(playlists)
     /\ \A i \in DOMAIN playlists :
          ~playlists[i].is_active => ~playlists'[i].is_active]_vars

\* An update of a row that an earlier delete made inactive has answered 200:
\* the row has the new name and is still inactive.
C34_Witness ==
  /\ nreq = 2
  /\ u_pc = "done"
  /\ u_res.status = 200
  /\ u_body.playlist_name = "n2"
  /\ \E i \in DOMAIN playlists :
       /\ playlists[i].playlist_id = u_body.playlist_id
       /\ playlists[i].playlist_name = "n2"
       /\ ~playlists[i].is_active

====
